---- MODULE Spec2Model ----
(***************************************************************************)
(* Model of src/driver.rs: PyDriver, the asynchronous facade over one      *)
(* songbird Driver kept in an Arc<tokio::sync::Mutex<Driver>>.  Every      *)
(* #[pymethods] operation clones the Arc, spawns a future with             *)
(* pyo3_asyncio::tokio::future_into_py and, inside it, locks the mutex,    *)
(* makes one call on the Driver and drops the guard at the end of the      *)
(* statement.                                                              *)
(***************************************************************************)
EXTENDS Integers, Sequences, FiniteSets, TLC

\* ------------------------------------------------------------------ bounds
NumOps == 2
NumSources == 2
MaxParts == 3

\* ------------------------------------------------------- program constants
DefaultBitsPerSecond == 128000
BitrateArgs == {64000}

Ops == 1..NumOps
Sources == 1..NumSources
NoOp == 0

Configs == {"cfgA"}
DefaultConfig == "default"
EngineErrors == {"timed_out"}
ActivationErrors == {"bad_source"}

PlayKinds == {"play_source", "play_only_source"}

VARIABLES
    session,   \* the songbird Driver behind the mutex
    guard,     \* owner of the Mutex<Driver>, NoOp when free
    waitq,     \* futures parked in driver.lock().await, oldest first
    srcGuard,  \* owner of each PySource mutex, NoOp when free
    srcWaitq,  \* futures parked in source.lock().await, oldest first
    op,        \* the call each spawned future was created for
    pc,        \* position of each future
    input,     \* the local `source` of a play future once activated
    res,       \* the value the session call produced
    result,    \* what the host awaitable resolves to
    nextInput, \* inputs produced so far
    acqOrder,  \* the futures that were granted the guard, in that order
    nCalls,    \* Driver calls per future
    unguarded, \* a Driver call was made by a future that is not the owner
    passed,    \* the arguments each connect() was called with
    engineInfo \* the ConnectionInfo the Driver received last

vars == <<session, guard, waitq, srcGuard, srcWaitq, op, pc, input, res,
          result, nextInput, acqOrder, nCalls, unguarded, passed, engineInfo>>

\* ------------------------------------------------------------ value model
\* Strings that are processed are sequences of one-character strings.
Wss == <<"w", "s", "s", ":", "/", "/">>

\* str::replace(from, ""): every non-overlapping match, scanning left to
\* right, is removed.
RECURSIVE ReplaceAll(_, _)
ReplaceAll(s, from) ==
    IF Len(s) < Len(from) THEN s
    ELSE IF SubSeq(s, 1, Len(from)) = from
         THEN ReplaceAll(SubSeq(s, Len(from) + 1, Len(s)), from)
         ELSE <<Head(s)>> \o ReplaceAll(Tail(s), from)

\* let endpoint = endpoint.replace("wss://", "");
NormalizeEndpoint(endpoint) == ReplaceAll(endpoint, Wss)

NoConn == [token |-> "", endpoint |-> <<>>, session_id |-> "",
           guild_id |-> 0, channel_id |-> 0, user_id |-> 0]

NoInfo == [token |-> "", endpoint |-> <<>>, session_id |-> "",
           guild_id |-> 0, channel_id |-> <<>>, user_id |-> 0]

\* songbird::ConnectionInfo { channel_id: Some(..), endpoint, guild_id,
\* session_id, token, user_id } built from the captured arguments.
ConnectionInfo(args, endpoint) ==
    [token |-> args.token, endpoint |-> endpoint,
     session_id |-> args.session_id, guild_id |-> args.guild_id,
     channel_id |-> <<args.channel_id>>, user_id |-> args.user_id]

BitsPerSecond(n) == <<"BitsPerSecond", n>>
BitrateMax == <<"Max">>
BitrateAuto == <<"Auto">>

\* Driver::new(config): disconnected, unmuted, nothing playing.
NewDriver(config) ==
    [conn |-> "disconnected", mute |-> FALSE,
     bitrate |-> BitsPerSecond(DefaultBitsPerSecond),
     sources |-> {}, config |-> config]

\* No PyDriver has been constructed.
NoDriver ==
    [conn |-> "absent", mute |-> FALSE, bitrate |-> <<>>, sources |-> {},
     config |-> ""]

\* Faulty variant: the supplied config is dropped.
CreateConfig_AlwaysDefault(config) == DefaultConfig

\* create(config = None): Some(py_config) => its config, None => default.
CreateConfig(config) == IF config = <<>> THEN DefaultConfig ELSE config[1]

Call(kind) ==
    [kind |-> kind, src |-> 0, bits |-> 0, cfg |-> "", opt |-> <<>>,
     conn |-> NoConn]
NoCall == Call("none")

NoRes == [tag |-> "none", flag |-> FALSE, track |-> 0, err |-> ""]
UnitRes == [NoRes EXCEPT !.tag = "unit"]
BoolRes(b) == [NoRes EXCEPT !.tag = "bool", !.flag = b]
TrackRes(t) == [NoRes EXCEPT !.tag = "track", !.track = t]
OkRes == [NoRes EXCEPT !.tag = "ok"]
ErrRes(e) == [NoRes EXCEPT !.tag = "err", !.err = e]

\* format!("{:?}", err)
DebugFormat(e) == <<"Debug", e>>

\* What the awaitable of future_into_py resolves to.
Pending == [tag |-> "pending", flag |-> FALSE, track |-> 0, err |-> <<>>]
PyOk == [Pending EXCEPT !.tag = "Ok"]
PyBool(b) == [Pending EXCEPT !.tag = "Bool", !.flag = b]
PyTrackHandle(t) == [Pending EXCEPT !.tag = "TrackHandle", !.track = t]
CouldNotConnectToRTPError(msg) ==
    [Pending EXCEPT !.tag = "ConnectionFailure", !.err = msg]
ActivationFailure(e) == [Pending EXCEPT !.tag = "ActivationFailure", !.err = <<e>>]
UseAsyncConstructorError(msg) == [Pending EXCEPT !.tag = "UsageError", !.err = <<msg>>]
PyDriverHandle == [Pending EXCEPT !.tag = "Driver"]

\* ------------------------------------------------ tokio::sync::Mutex (FIFO)
\* lock(): granted at once when the mutex is free, parked behind the
\* earlier waiters otherwise.
\* Faulty variant: the lock is granted whether or not it is held.
LockGranted_Always(p) == TRUE

LockGranted(p) == guard = NoOp

DriverLock(p) ==
    /\ pc[p] = "ready"
    /\ IF LockGranted(p)
       THEN /\ guard' = p
            /\ acqOrder' = Append(acqOrder, p)
            /\ pc' = [pc EXCEPT ![p] = "locked"]
            /\ waitq' = waitq
       ELSE /\ waitq' = Append(waitq, p)
            /\ pc' = [pc EXCEPT ![p] = "waiting"]
            /\ UNCHANGED <<guard, acqOrder>>
    /\ UNCHANGED <<session, srcGuard, srcWaitq, op, input, res, result,
                   nextInput, nCalls, unguarded, passed, engineInfo>>

\* Faulty variant: the mutex is freed without waking the oldest waiter.
DropGuard_LosesWaiter(p) ==
    /\ guard' = NoOp
    /\ pc' = [pc EXCEPT ![p] = "done"]
    /\ UNCHANGED <<waitq, acqOrder>>

\* Dropping the MutexGuard: the permit goes to the oldest waiter, if any.
DropGuard(p) ==
    IF waitq = <<>>
    THEN /\ guard' = NoOp
         /\ pc' = [pc EXCEPT ![p] = "done"]
         /\ UNCHANGED <<waitq, acqOrder>>
    ELSE /\ guard' = Head(waitq)
         /\ waitq' = Tail(waitq)
         /\ acqOrder' = Append(acqOrder, Head(waitq))
         /\ pc' = [pc EXCEPT ![p] = "done", ![Head(waitq)] = "locked"]

\* ------------------------------------------------------------ host calls
\* The synchronous part of each #[pymethods] fn: clone the Arc, capture the
\* arguments and hand the future to future_into_py.  Futures are numbered
\* in the order they are created.
Spawn(p, call, first) ==
    /\ pc[p] = "idle"
    /\ \A q \in Ops : q < p => pc[q] # "idle"
    /\ op' = [op EXCEPT ![p] = call]
    /\ pc' = [pc EXCEPT ![p] = first]
    /\ UNCHANGED <<session, guard, waitq, srcGuard, srcWaitq, input, res,
                   result, nextInput, acqOrder, nCalls, unguarded, engineInfo>>

connect(p, args) ==
    Spawn(p, [Call("connect") EXCEPT
                 !.conn = args,
                 !.conn.endpoint = NormalizeEndpoint(args.endpoint)],
          "ready")
    /\ passed' = [passed EXCEPT ![p] = args]

leave(p) == Spawn(p, Call("leave"), "ready") /\ UNCHANGED passed
mute(p) == Spawn(p, Call("mute"), "ready") /\ UNCHANGED passed
unmute(p) == Spawn(p, Call("unmute"), "ready") /\ UNCHANGED passed
is_muted(p) == Spawn(p, Call("is_muted"), "ready") /\ UNCHANGED passed
stop(p) == Spawn(p, Call("stop"), "ready") /\ UNCHANGED passed
set_bitrate(p, n) ==
    Spawn(p, [Call("set_bitrate") EXCEPT !.bits = n], "ready") /\ UNCHANGED passed
set_bitrate_to_max(p) == Spawn(p, Call("set_bitrate_to_max"), "ready") /\ UNCHANGED passed
set_bitrate_to_auto(p) == Spawn(p, Call("set_bitrate_to_auto"), "ready") /\ UNCHANGED passed
set_config(p, c) ==
    Spawn(p, [Call("set_config") EXCEPT !.cfg = c], "ready") /\ UNCHANGED passed

\* PySource objects are interchangeable: they are numbered in the order
\* the play calls first use them.
KnownSource(d) == d = 1 \/ \E q \in Ops : op[q].src = d - 1

play_source(p, d) ==
    /\ KnownSource(d)
    /\ Spawn(p, [Call("play_source") EXCEPT !.src = d], "start")
    /\ UNCHANGED passed

play_only_source(p, d) ==
    /\ KnownSource(d)
    /\ Spawn(p, [Call("play_only_source") EXCEPT !.src = d], "start")
    /\ UNCHANGED passed

\* --------------------------------------------------- calls on the Driver
\* driver.lock().await.<call>(..): one synchronous call on the locked
\* Driver by the future at "locked".
DriverCall(p, kind, after, r) ==
    /\ pc[p] = "locked"
    /\ op[p].kind = kind
    /\ session' = after
    /\ res' = [res EXCEPT ![p] = r]
    /\ pc' = [pc EXCEPT ![p] = "called"]
    /\ nCalls' = [nCalls EXCEPT ![p] = @ + 1]
    /\ unguarded' = (unguarded \/ guard # p)
    /\ UNCHANGED <<guard, waitq, srcGuard, srcWaitq, op, input, result,
                   nextInput, acqOrder, passed, engineInfo>>

DriverLeave(p) ==
    DriverCall(p, "leave", [session EXCEPT !.conn = "disconnected"], UnitRes)

DriverMute(p) ==
    DriverCall(p, "mute", [session EXCEPT !.mute = TRUE], UnitRes)

\* Faulty variant: unmute() passes `true`, as mute() does.
DriverUnmute_PassesTrue(p) ==
    DriverCall(p, "unmute", [session EXCEPT !.mute = TRUE], UnitRes)

DriverUnmute(p) ==
    DriverCall(p, "unmute", [session EXCEPT !.mute = FALSE], UnitRes)

\* Faulty variant: is_muted() does not read the Driver.
DriverIsMute_AlwaysFalse(p) ==
    DriverCall(p, "is_muted", session, BoolRes(FALSE))

DriverIsMute(p) ==
    DriverCall(p, "is_muted", session, BoolRes(session.mute))

DriverStop(p) ==
    DriverCall(p, "stop", [session EXCEPT !.sources = {}], UnitRes)

\* Faulty variant: a bitrate that is not positive stands for "automatic".
DriverSetBitrate_SentinelAuto(p) ==
    DriverCall(p, "set_bitrate",
               [session EXCEPT !.bitrate = IF op[p].bits <= 0
                                           THEN BitrateAuto
                                           ELSE BitsPerSecond(op[p].bits)],
               UnitRes)

DriverSetBitrate(p) ==
    DriverCall(p, "set_bitrate",
               [session EXCEPT !.bitrate = BitsPerSecond(op[p].bits)], UnitRes)

DriverSetBitrateMax(p) ==
    DriverCall(p, "set_bitrate_to_max",
               [session EXCEPT !.bitrate = BitrateMax], UnitRes)

DriverSetBitrateAuto(p) ==
    DriverCall(p, "set_bitrate_to_auto",
               [session EXCEPT !.bitrate = BitrateAuto], UnitRes)

DriverSetConfig(p) ==
    DriverCall(p, "set_config", [session EXCEPT !.config = op[p].cfg], UnitRes)

\* Faulty variant: play_source() calls Driver::play_only_source.
DriverPlaySource_ReplacesOthers(p) ==
    DriverCall(p, "play_source",
               [session EXCEPT !.sources = {input[p]}],
               TrackRes(input[p]))

DriverPlaySource(p) ==
    DriverCall(p, "play_source",
               [session EXCEPT !.sources = @ \cup {input[p]}],
               TrackRes(input[p]))

\* Faulty variant: play_only_source() calls Driver::play_source.
DriverPlayOnlyStop_KeepsOthers(p) ==
    /\ pc[p] = "locked"
    /\ op[p].kind = "play_only_source"
    /\ pc' = [pc EXCEPT ![p] = "stopping"]
    /\ nCalls' = [nCalls EXCEPT ![p] = @ + 1]
    /\ unguarded' = (unguarded \/ guard # p)
    /\ UNCHANGED <<session, guard, waitq, srcGuard, srcWaitq, op, input, res,
                   result, nextInput, acqOrder, passed, engineInfo>>

\* Faulty variant: the old sources are stopped under one guard, which is
\* dropped before the new source is started.
DriverPlayOnlyStop_DropsGuard(p) ==
    /\ pc[p] = "locked"
    /\ op[p].kind = "play_only_source"
    /\ session' = [session EXCEPT !.sources = {}]
    /\ nCalls' = [nCalls EXCEPT ![p] = @ + 1]
    /\ unguarded' = (unguarded \/ guard # p)
    /\ IF waitq = <<>>
       THEN /\ guard' = NoOp
            /\ pc' = [pc EXCEPT ![p] = "stopping"]
            /\ UNCHANGED <<waitq, acqOrder>>
       ELSE /\ guard' = Head(waitq)
            /\ waitq' = Tail(waitq)
            /\ acqOrder' = Append(acqOrder, Head(waitq))
            /\ pc' = [pc EXCEPT ![p] = "stopping", ![Head(waitq)] = "locked"]
    /\ UNCHANGED <<srcGuard, srcWaitq, op, input, res, result, nextInput,
                   passed, engineInfo>>

\* Driver::play_only_source is the engine's stop-then-play primitive: the
\* two halves are separate steps of the one call made under the guard.
DriverPlayOnlyStop(p) ==
    /\ pc[p] = "locked"
    /\ op[p].kind = "play_only_source"
    /\ session' = [session EXCEPT !.sources = {}]
    /\ pc' = [pc EXCEPT ![p] = "stopping"]
    /\ nCalls' = [nCalls EXCEPT ![p] = @ + 1]
    /\ unguarded' = (unguarded \/ guard # p)
    /\ UNCHANGED <<guard, waitq, srcGuard, srcWaitq, op, input, res, result,
                   nextInput, acqOrder, passed, engineInfo>>

DriverPlayOnlyStart(p) ==
    /\ pc[p] = "stopping"
    /\ session' = [session EXCEPT !.sources = @ \cup {input[p]}]
    /\ res' = [res EXCEPT ![p] = TrackRes(input[p])]
    /\ pc' = [pc EXCEPT ![p] = "called"]
    /\ unguarded' = (unguarded \/ guard # p)
    /\ UNCHANGED <<guard, waitq, srcGuard, srcWaitq, op, input, result,
                   nextInput, acqOrder, nCalls, passed, engineInfo>>

\* Faulty variant: the guard is dropped once the handshake has been started,
\* not when it has returned.
DriverConnectStart_DropsGuard(p) ==
    /\ pc[p] = "locked"
    /\ op[p].kind = "connect"
    /\ session' = [session EXCEPT !.conn = "connecting"]
    /\ engineInfo' = ConnectionInfo(op[p].conn, op[p].conn.endpoint)
    /\ nCalls' = [nCalls EXCEPT ![p] = @ + 1]
    /\ unguarded' = (unguarded \/ guard # p)
    /\ IF waitq = <<>>
       THEN /\ guard' = NoOp
            /\ pc' = [pc EXCEPT ![p] = "connecting"]
            /\ UNCHANGED <<waitq, acqOrder>>
       ELSE /\ guard' = Head(waitq)
            /\ waitq' = Tail(waitq)
            /\ acqOrder' = Append(acqOrder, Head(waitq))
            /\ pc' = [pc EXCEPT ![p] = "connecting", ![Head(waitq)] = "locked"]
    /\ UNCHANGED <<srcGuard, srcWaitq, op, input, res, result, nextInput,
                   passed>>

\* driver.lock().await.connect(ConnectionInfo {..}).await: the guard is a
\* temporary of the whole `let res = ..;` statement, so the handshake runs
\* with the mutex held.
DriverConnectStart(p) ==
    /\ pc[p] = "locked"
    /\ op[p].kind = "connect"
    /\ session' = [session EXCEPT !.conn = "connecting"]
    /\ engineInfo' = ConnectionInfo(op[p].conn, op[p].conn.endpoint)
    /\ pc' = [pc EXCEPT ![p] = "connecting"]
    /\ nCalls' = [nCalls EXCEPT ![p] = @ + 1]
    /\ unguarded' = (unguarded \/ guard # p)
    /\ UNCHANGED <<guard, waitq, srcGuard, srcWaitq, op, input, res, result,
                   nextInput, acqOrder, passed>>

DriverConnectReturn(p, r) ==
    /\ pc[p] = "connecting"
    /\ session' = [session EXCEPT
                      !.conn = IF r = OkRes THEN "connected" ELSE "disconnected"]
    /\ res' = [res EXCEPT ![p] = r]
    /\ pc' = [pc EXCEPT ![p] = "called"]
    /\ unguarded' = (unguarded \/ guard # p)
    /\ UNCHANGED <<guard, waitq, srcGuard, srcWaitq, op, input, result,
                   nextInput, acqOrder, nCalls, passed, engineInfo>>

DriverConnectOk(p) == DriverConnectReturn(p, OkRes)
DriverConnectErr(p, e) == DriverConnectReturn(p, ErrRes(e))

\* Faulty variant: the result of Driver::connect is dropped.
Marshal_IgnoresError(kind, r) ==
    CASE kind = "is_muted" -> PyBool(r.flag)
      [] kind \in PlayKinds -> PyTrackHandle(r.track)
      [] OTHER -> PyOk

\* The value the future resolves with, from the result of its Driver call.
Marshal(kind, r) ==
    CASE kind = "connect" ->
             IF r.tag = "err"
             THEN CouldNotConnectToRTPError(DebugFormat(r.err))
             ELSE PyOk
      [] kind = "is_muted" -> PyBool(r.flag)
      [] kind \in PlayKinds -> PyTrackHandle(r.track)
      [] OTHER -> PyOk

\* End of the statement holding the guard, then the future's Ok/Err.
Finish(p) ==
    /\ pc[p] = "called"
    /\ DropGuard(p)
    /\ result' = [result EXCEPT ![p] = Marshal(op[p].kind, res[p])]
    /\ UNCHANGED <<session, srcGuard, srcWaitq, op, input, res, nextInput,
                   nCalls, unguarded, passed, engineInfo>>

\* ------------------------------------------------------ source activation
\* Faulty variant: the play future takes the Driver's lock, when it is free,
\* before it activates the source.
SourceLock_TakesDriver(p) ==
    /\ pc[p] = "start"
    /\ LET d == op[p].src IN
       IF srcGuard[d] = NoOp
       THEN /\ srcGuard' = [srcGuard EXCEPT ![d] = p]
            /\ pc' = [pc EXCEPT ![p] = "activating"]
            /\ guard' = IF guard = NoOp THEN p ELSE guard
            /\ srcWaitq' = srcWaitq
       ELSE /\ srcWaitq' = [srcWaitq EXCEPT ![d] = Append(@, p)]
            /\ pc' = [pc EXCEPT ![p] = "srcwait"]
            /\ UNCHANGED <<srcGuard, guard>>
    /\ UNCHANGED <<session, waitq, op, input, res, result, nextInput,
                   acqOrder, nCalls, unguarded, passed, engineInfo>>

\* source.lock().await of a play future.
SourceLock(p) ==
    /\ pc[p] = "start"
    /\ LET d == op[p].src IN
       IF srcGuard[d] = NoOp
       THEN /\ srcGuard' = [srcGuard EXCEPT ![d] = p]
            /\ pc' = [pc EXCEPT ![p] = "activating"]
            /\ srcWaitq' = srcWaitq
       ELSE /\ srcWaitq' = [srcWaitq EXCEPT ![d] = Append(@, p)]
            /\ pc' = [pc EXCEPT ![p] = "srcwait"]
            /\ srcGuard' = srcGuard
    /\ UNCHANGED <<session, guard, waitq, op, input, res, result, nextInput,
                   acqOrder, nCalls, unguarded, passed, engineInfo>>

\* The source guard is dropped at the end of `let source = ..;`.
DropSourceGuard(p, next) ==
    LET d == op[p].src IN
    IF srcWaitq[d] = <<>>
    THEN /\ srcGuard' = [srcGuard EXCEPT ![d] = NoOp]
         /\ pc' = [pc EXCEPT ![p] = next]
         /\ srcWaitq' = srcWaitq
    ELSE /\ srcGuard' = [srcGuard EXCEPT ![d] = Head(srcWaitq[d])]
         /\ srcWaitq' = [srcWaitq EXCEPT ![d] = Tail(@)]
         /\ pc' = [pc EXCEPT ![p] = next, ![Head(srcWaitq[d])] = "activating"]

\* Faulty variant: the source guard is kept after the activation.
ActivateOk_KeepsSourceGuard(p) ==
    /\ pc[p] = "activating"
    /\ nextInput' = nextInput + 1
    /\ input' = [input EXCEPT ![p] = nextInput + 1]
    /\ pc' = [pc EXCEPT ![p] = "ready"]
    /\ UNCHANGED <<session, guard, waitq, srcGuard, srcWaitq, op, res, result,
                   acqOrder, nCalls, unguarded, passed, engineInfo>>

\* PySource::get_input builds a new input on every call; nothing is cached.
FreshInput == nextInput + 1

\* get_input().await returned Ok(input).
ActivateOk(p) ==
    /\ pc[p] = "activating"
    /\ nextInput' = FreshInput
    /\ input' = [input EXCEPT ![p] = FreshInput]
    /\ DropSourceGuard(p, "ready")
    /\ UNCHANGED <<session, guard, waitq, op, res, result, acqOrder, nCalls,
                   unguarded, passed, engineInfo>>

\* Faulty variant: play_only_source() has stopped the other sources by the
\* time the activation error is returned.
ActivateErr_StopsOthers(p, e) ==
    /\ pc[p] = "activating"
    /\ result' = [result EXCEPT ![p] = ActivationFailure(e)]
    /\ session' = [session EXCEPT
                      !.sources = IF op[p].kind = "play_only_source" THEN {} ELSE @]
    /\ LET d == op[p].src IN
       IF srcWaitq[d] = <<>>
       THEN /\ srcGuard' = [srcGuard EXCEPT ![d] = NoOp]
            /\ pc' = [pc EXCEPT ![p] = "done"]
            /\ srcWaitq' = srcWaitq
       ELSE /\ srcGuard' = [srcGuard EXCEPT ![d] = Head(srcWaitq[d])]
            /\ srcWaitq' = [srcWaitq EXCEPT ![d] = Tail(@)]
            /\ pc' = [pc EXCEPT ![p] = "done", ![Head(srcWaitq[d])] = "activating"]
    /\ UNCHANGED <<guard, waitq, op, input, res, nextInput, acqOrder,
                   nCalls, unguarded, passed, engineInfo>>

\* Faulty variant: a failed activation is tried again.
ActivateErr_Retries(p, e) ==
    /\ pc[p] = "activating"
    /\ pc' = [pc EXCEPT ![p] = "activating"]
    /\ result' = [result EXCEPT ![p] = ActivationFailure(e)]
    /\ UNCHANGED <<session, guard, waitq, srcGuard, srcWaitq, op, input, res,
                   nextInput, acqOrder, nCalls, unguarded, passed, engineInfo>>

\* get_input().await returned Err(err): `return Err(err)`.
ActivateErr(p, e) ==
    /\ pc[p] = "activating"
    /\ result' = [result EXCEPT ![p] = ActivationFailure(e)]
    /\ DropSourceGuard(p, "done")
    /\ UNCHANGED <<session, guard, waitq, op, input, res, nextInput, acqOrder,
                   nCalls, unguarded, passed, engineInfo>>

\* ----------------------------------------------------------- specification
ConfigArgs == {<<>>} \cup {<<c>> : c \in Configs}

CoreConnectArgs ==
    {[token |-> "T", endpoint |-> Wss \o <<"a">>, session_id |-> "S",
      guild_id |-> 1, channel_id |-> 2, user_id |-> 3]}

\* No call has been made on the handle.
NoFutures ==
    /\ guard = NoOp
    /\ waitq = <<>>
    /\ srcGuard = [d \in Sources |-> NoOp]
    /\ srcWaitq = [d \in Sources |-> <<>>]
    /\ op = [p \in Ops |-> NoCall]
    /\ pc = [p \in Ops |-> "idle"]
    /\ input = [p \in Ops |-> 0]
    /\ res = [p \in Ops |-> NoRes]
    /\ result = [p \in Ops |-> Pending]
    /\ nextInput = 0
    /\ acqOrder = <<>>
    /\ nCalls = [p \in Ops |-> 0]
    /\ unguarded = FALSE
    /\ passed = [p \in Ops |-> NoConn]
    /\ engineInfo = NoInfo

\* The handle returned by `await Driver.create(config)`.
Init ==
    /\ \E c \in ConfigArgs : session = NewDriver(CreateConfig(c))
    /\ NoFutures

Step(p) ==
    \/ DriverLock(p)
    \/ DriverLeave(p)
    \/ DriverMute(p)
    \/ DriverUnmute(p)
    \/ DriverIsMute(p)
    \/ DriverStop(p)
    \/ DriverSetBitrate(p)
    \/ DriverSetBitrateMax(p)
    \/ DriverSetBitrateAuto(p)
    \/ DriverSetConfig(p)
    \/ DriverPlaySource(p)
    \/ DriverPlayOnlyStop(p)
    \/ DriverPlayOnlyStart(p)
    \/ DriverConnectStart(p)
    \/ DriverConnectOk(p)
    \/ \E e \in EngineErrors : DriverConnectErr(p, e)
    \/ Finish(p)
    \/ SourceLock(p)
    \/ ActivateOk(p)
    \/ \E e \in ActivationErrors : ActivateErr(p, e)

HostCall(p) ==
    \/ \E a \in CoreConnectArgs : connect(p, a)
    \/ leave(p)
    \/ mute(p)
    \/ unmute(p)
    \/ is_muted(p)
    \/ stop(p)
    \/ \E n \in BitrateArgs : set_bitrate(p, n)
    \/ set_bitrate_to_max(p)
    \/ set_bitrate_to_auto(p)
    \/ \E c \in Configs : set_config(p, c)
    \/ \E d \in Sources : play_source(p, d)
    \/ \E d \in Sources : play_only_source(p, d)

Next == \E p \in Ops : HostCall(p) \/ Step(p)

Spec == Init /\ [][Next]_vars

\* Fair scheduling: a future that can take a step eventually takes one, so
\* every Driver call and every activation returns.
SpecFair == Spec /\ \A p \in Ops : WF_vars(Step(p))

\* ------------------------------------------------------------ construction
\* Driver(): always Err(UseAsyncConstructorError).
new(p) ==
    /\ pc[p] = "idle"
    /\ \A q \in Ops : q < p => pc[q] # "idle"
    /\ op' = [op EXCEPT ![p] = Call("new")]
    /\ pc' = [pc EXCEPT ![p] = "done"]
    /\ result' = [result EXCEPT ![p] =
                      UseAsyncConstructorError("use await Driver.create()")]
    /\ UNCHANGED <<session, guard, waitq, srcGuard, srcWaitq, input, res,
                   nextInput, acqOrder, nCalls, unguarded, passed, engineInfo>>

\* Driver.create(config): the config is resolved, the future is spawned.
\* One handle is followed: the first one created.
create(p, config) ==
    /\ session = NoDriver
    /\ \A q \in Ops : op[q].kind # "create"
    /\ Spawn(p, [Call("create") EXCEPT !.opt = config,
                                       !.cfg = CreateConfig(config)],
             "creating")
    /\ UNCHANGED passed

\* The future of create(): Ok(PyDriver { driver: Arc::new(Mutex::new(
\* Driver::new(config))) }).
CreateDone(p) ==
    /\ pc[p] = "creating"
    /\ session' = NewDriver(op[p].cfg)
    /\ result' = [result EXCEPT ![p] = PyDriverHandle]
    /\ pc' = [pc EXCEPT ![p] = "done"]
    /\ UNCHANGED <<guard, waitq, srcGuard, srcWaitq, op, input, res,
                   nextInput, acqOrder, nCalls, unguarded, passed, engineInfo>>

InitCreate == session = NoDriver /\ NoFutures

NextCreate ==
    \E p \in Ops :
        \/ new(p)
        \/ \E c \in ConfigArgs : create(p, c)
        \/ CreateDone(p)
        \/ session # NoDriver /\ (HostCall(p) \/ Step(p))

SpecCreate == InitCreate /\ [][NextCreate]_vars

\* ------------------------------------------------- the bitrate operations
\* set_bitrate(bitrate: i32) over the range of i32, with the two other
\* bitrate calls.
I32Samples == {-2147483647 - 1, -64000, -1, 0, 1, 64000, 128000, 2147483647}

NextBitrate ==
    \E p \in Ops :
        \/ \E n \in I32Samples : set_bitrate(p, n)
        \/ set_bitrate_to_max(p)
        \/ set_bitrate_to_auto(p)
        \/ DriverLock(p)
        \/ DriverSetBitrate(p)
        \/ DriverSetBitrateMax(p)
        \/ DriverSetBitrateAuto(p)
        \/ Finish(p)

SpecBitrate == Init /\ [][NextBitrate]_vars

\* ------------------------------------------------ connect() on its inputs
\* One connect() call, its endpoint drawn from the strings made of at most
\* MaxParts pieces.
Pieces == {Wss, <<"w", "s">>, <<"s", ":", "/", "/">>, <<"a">>, <<".", "b">>}

RECURSIVE Concats(_)
Concats(n) ==
    IF n = 0 THEN {<<>>}
    ELSE LET shorter == Concats(n - 1)
         IN  shorter \cup {x \o y : x \in Pieces, y \in shorter}

Endpoints == Concats(MaxParts)

ConnectArgs ==
    [token : {"T", "U"}, endpoint : Endpoints, session_id : {"S"},
     guild_id : {1, 4}, channel_id : {2}, user_id : {3}]

NextConnect ==
    \/ \E a \in ConnectArgs : connect(1, a)
    \/ DriverLock(1)
    \/ DriverConnectStart(1)
    \/ DriverConnectOk(1)
    \/ \E e \in EngineErrors : DriverConnectErr(1, e)
    \/ Finish(1)

SpecConnect == Init /\ [][NextConnect]_vars

\* ------------------------------------------------------------------ claims
StartsWith(s, prefix) ==
    Len(s) >= Len(prefix) /\ SubSeq(s, 1, Len(prefix)) = prefix

\* The endpoint with one leading "wss://" removed, if it has one.
StripLeading(s) ==
    IF StartsWith(s, Wss) THEN SubSeq(s, Len(Wss) + 1, Len(s)) ELSE s

\* The futures whose connect() has reached the Driver.
Delivered == {p \in Ops : op[p].kind = "connect"
                            /\ pc[p] \in {"connecting", "called", "done"}}

\* C8: for an endpoint e that does not start with "wss://", connect("wss://" + e)
\* and connect(e) both hand the Driver the endpoint e, and hand it token,
\* session id, guild id, channel id and user id exactly as passed.
C8_SchemeOptional ==
    \A p \in Delivered :
        LET e == StripLeading(passed[p].endpoint) IN
        (~StartsWith(e, Wss)) =>
            engineInfo = ConnectionInfo(passed[p], e)

\* C9: the endpoint handed to the Driver is the one passed with one leading
\* "wss://" removed when it starts with it, and the one passed otherwise; a
\* "wss://" elsewhere in the string is kept.
C9_StripsOnlyLeading ==
    \A p \in Delivered :
        engineInfo.endpoint = StripLeading(passed[p].endpoint)

\* Positions at which a future is inside its `driver.lock().await.<call>`
\* statement with the lock granted.
HoldingPcs == {"locked", "connecting", "stopping", "called"}
Holding == {p \in Ops : pc[p] \in HoldingPcs}
InQueue(p) == \E i \in DOMAIN waitq : waitq[i] = p
NAcq(p) == Cardinality({i \in DOMAIN acqOrder : acqOrder[i] = p})

\* C1: at most one operation holds the session guard; every other operation
\* that has asked for it is parked in the mutex's queue and is not inside a
\* Driver call.
C1_OneHolder ==
    /\ Cardinality(Holding) <= 1
    /\ \A p \in Holding : guard = p /\ ~InQueue(p)
    /\ \A p \in Ops : pc[p] = "waiting" => (InQueue(p) /\ guard \notin {NoOp, p})
    /\ \A p \in Ops : InQueue(p) => pc[p] = "waiting"

C1_Witness ==
    \E p, q \in Ops : pc[p] = "locked" /\ pc[q] = "waiting" /\ guard = p

\* C2: every Driver call, and every step of a Driver call that spans several
\* steps, is made by the future that owns the guard.
C2_GuardedAccess ==
    /\ ~unguarded
    /\ \A p \in Ops : pc[p] \in {"connecting", "stopping"} => guard = p
    /\ \A p \in Ops : nCalls[p] > 0 => NAcq(p) > 0

C2_Witness ==
    \E p, q \in Ops :
        /\ op[p].kind = "connect" /\ pc[p] = "called"
        /\ pc[q] = "waiting"

\* C3: a play call whose activation failed resolves to ActivationFailure
\* having never been granted the guard and never called the Driver, and the
\* step on which it fails leaves the whole session as it was.
C3_FailedActivationLeavesSession ==
    /\ [](\A p \in Ops : result[p].tag = "ActivationFailure" =>
              /\ op[p].kind \in PlayKinds
              /\ pc[p] = "done"
              /\ NAcq(p) = 0
              /\ nCalls[p] = 0)
    /\ [][\A p \in Ops :
              (result[p].tag = "pending" /\ result'[p].tag = "ActivationFailure")
                  => session' = session]_vars

C3_Witness ==
    \E p \in Ops :
        /\ op[p].kind = "play_only_source"
        /\ result[p].tag = "ActivationFailure"
        /\ session.sources # {}

\* C4: a play future that is activating its source (or waiting to) neither
\* owns the session guard nor queues for it.
C4_NoGuardWhileActivating ==
    \A p \in Ops :
        pc[p] \in {"start", "srcwait", "activating"} =>
            (guard # p /\ ~InQueue(p) /\ NAcq(p) = 0)

\* An operation issued after the play call went through the guard while the
\* activation was still pending.
C4_Witness ==
    \E p, q \in Ops :
        /\ p < q
        /\ pc[p] = "activating"
        /\ pc[q] = "done" /\ nCalls[q] = 1

\* C5: on the step on which a play_only_source that got its input releases
\* the guard, the session's active sources are exactly the one it started.
C5_ExactlyOneAfterPlayOnly ==
    [][\A p \in Ops :
          (op[p].kind = "play_only_source" /\ pc[p] = "called" /\ pc'[p] = "done")
              => (session'.sources = {input[p]}
                  /\ Cardinality(session'.sources) = 1
                  /\ result'[p] = PyTrackHandle(input[p]))]_vars

\* A play_only_source is done, after a play_source that had started a
\* source, and its own source is playing.
C5_Witness ==
    \E p, q \in Ops :
        /\ op[p].kind = "play_only_source" /\ pc[p] = "done"
        /\ op[q].kind = "play_source" /\ result[q].tag = "TrackHandle"
        /\ acqOrder = <<q, p>>
        /\ session.sources = {input[p]}

\* C6: while play_only_source is between stopping the old sources and
\* starting the new one it owns the guard and no other operation is inside
\* a Driver call; outside that step the session never shows the new source
\* next to an older one when the guard is handed on.
C6_StopAndPlayOneStep ==
    \A p \in Ops :
        /\ pc[p] = "stopping" =>
              /\ guard = p
              /\ \A q \in Ops \ {p} : pc[q] \notin HoldingPcs
        /\ (op[p].kind = "play_only_source" /\ pc[p] = "called") =>
              /\ guard = p
              /\ session.sources = {input[p]}

C6_Witness ==
    \E p, q \in Ops : pc[p] = "stopping" /\ pc[q] = "waiting"

\* C7: a connect() makes one Driver::connect call and resolves either to
\* success with the session connected or to CouldNotConnectToRTPError with
\* the engine's error and the session disconnected; only the connect itself
\* is inside a Driver call while the session is mid-handshake.
C7_ConnectOutcome ==
    /\ \A p \in Ops : op[p].kind = "connect" =>
          /\ nCalls[p] <= 1
          /\ pc[p] \in {"connecting", "called", "done"} => nCalls[p] = 1
          /\ pc[p] = "called" =>
                \/ res[p] = OkRes /\ session.conn = "connected"
                \/ /\ \E e \in EngineErrors : res[p] = ErrRes(e)
                   /\ session.conn = "disconnected"
          /\ pc[p] = "done" =>
                \/ res[p] = OkRes /\ result[p] = PyOk
                \/ \E e \in EngineErrors :
                      /\ res[p] = ErrRes(e)
                      /\ result[p] = CouldNotConnectToRTPError(DebugFormat(e))
    /\ session.conn = "connecting" =>
          \E p \in Ops :
              /\ op[p].kind = "connect" /\ pc[p] = "connecting"
              /\ Holding = {p}

C7_Witness ==
    \E p, q \in Ops :
        /\ op[p].kind = "connect" /\ pc[p] = "done"
        /\ result[p].tag = "ConnectionFailure"
        /\ op[q].kind = "leave" /\ pc[q] = "locked"
        /\ acqOrder = <<p, q>>

\* The mute()/unmute() futures whose Driver::mute call has been made, in the
\* order they were granted the guard.
MuteWriters == SelectSeq(acqOrder, LAMBDA p : op[p].kind \in {"mute", "unmute"}
                                               /\ nCalls[p] = 1)

\* C10: the mute flag is always TRUE or FALSE, and once mute()/unmute() calls
\* have run it is the value of the one that was granted the guard last.
C10_MuteLastWriter ==
    /\ session.mute \in BOOLEAN
    /\ MuteWriters = <<>> => session.mute = FALSE
    /\ MuteWriters # <<>> =>
          session.mute = (op[MuteWriters[Len(MuteWriters)]].kind = "mute")

\* mute() was issued first, unmute() second; unmute() got the guard first.
C10_Witness ==
    \E p, q \in Ops :
        /\ p < q
        /\ op[p].kind = "mute" /\ op[q].kind = "unmute"
        /\ pc[p] = "done" /\ pc[q] = "done"
        /\ acqOrder = <<q, p>>
        /\ session.mute = TRUE

\* Position of a future in the order of guard grants, 0 if not granted yet.
GrantIndex(p) ==
    IF \E i \in DOMAIN acqOrder : acqOrder[i] = p
    THEN CHOOSE i \in DOMAIN acqOrder : acqOrder[i] = p
    ELSE 0

\* The mute()/unmute() futures granted the guard before position i.
MuteWritersBefore(i) ==
    SelectSeq(SubSeq(acqOrder, 1, i - 1),
              LAMBDA p : op[p].kind \in {"mute", "unmute"})

C12_ActivatesOnce ==
    /\ [](\A p \in Ops : op[p].kind \in PlayKinds =>
              /\ nCalls[p] <= 1
              /\ (input[p] # 0) = (pc[p] \in {"ready", "waiting", "done"} \cup HoldingPcs
                                    /\ result[p].tag # "ActivationFailure")
              /\ \A q \in Ops \ {p} : input[p] # 0 => input[q] # input[p]
              /\ nCalls[p] = 1 => res[p] = TrackRes(input[p]) \/ pc[p] = "stopping")
    /\ [][\A p \in Ops :
              /\ (pc'[p] = "activating" /\ pc[p] # "activating")
                     => pc[p] \in {"start", "srcwait"}
              /\ pc[p] = "activating"
                     => \/ pc'[p] = "activating" /\ result'[p] = result[p]
                        \/ pc'[p] = "ready" /\ input'[p] # 0
                        \/ pc'[p] = "done" /\ result'[p].tag = "ActivationFailure"
              /\ pc[p] \in {"ready", "waiting", "done"} \cup HoldingPcs
                     => (pc'[p] \notin {"start", "srcwait", "activating"}
                         /\ input'[p] = input[p])]_vars

\* Two play calls on the same PySource both handed an input to the Driver.
C12_Witness ==
    \E p, q \in Ops :
        /\ p # q
        /\ op[p].kind \in PlayKinds /\ op[q].kind \in PlayKinds
        /\ op[p].src = op[q].src
        /\ nCalls[p] = 1 /\ nCalls[q] = 1
        /\ pc[p] = "done" /\ pc[q] = "done"
        /\ input[p] # input[q]

\* C15 as stated: of two calls issued one after the other, the first is
\* granted the guard, and so applies its Driver call, before the second.
C15_IssueOrderIsGuardOrder ==
    \A p, q \in Ops :
        (p < q /\ GrantIndex(q) # 0) =>
            (GrantIndex(p) # 0 /\ GrantIndex(p) < GrantIndex(q))

\* C15 as amended: the futures are created in issue order, and their Driver
\* calls are applied in the order in which the guard was granted, which need
\* not be the issue order: a future calls the Driver only once every future
\* granted the guard before it is done.
C15_CallsInGrantOrder ==
    \A i, j \in DOMAIN acqOrder :
        (i < j /\ nCalls[acqOrder[j]] > 0) =>
            (pc[acqOrder[i]] = "done" /\ nCalls[acqOrder[i]] = 1)

\* mute() then is_muted() issued back to back; is_muted() was granted the
\* guard first and returned FALSE.
C15_Witness ==
    \E p, q \in Ops :
        /\ p < q
        /\ op[p].kind = "mute" /\ op[q].kind = "is_muted"
        /\ pc[p] = "done" /\ pc[q] = "done"
        /\ acqOrder = <<q, p>>
        /\ result[q] = PyBool(FALSE)

\* C18: from the grant of the guard to a connect() until Driver::connect has
\* returned, the connect owns the guard and no other future is inside a
\* Driver call; a future granted the guard after a connect finds the connect
\* resolved, and a leave() waiting meanwhile has not touched the session.
C18_ConnectHoldsGuard ==
    \A p \in Ops : op[p].kind = "connect" =>
        /\ pc[p] \in {"locked", "connecting", "called"} =>
              /\ guard = p
              /\ \A q \in Ops \ {p} : pc[q] \notin HoldingPcs
        /\ pc[p] = "connecting" =>
              /\ session.conn = "connecting"
              /\ \A q \in Ops : pc[q] = "waiting" => nCalls[q] = 0
        /\ \A q \in Ops :
              (GrantIndex(p) # 0 /\ GrantIndex(q) > GrantIndex(p)) =>
                  /\ pc[p] = "done"
                  /\ result[p].tag \in {"Ok", "ConnectionFailure"}

C18_Witness ==
    \E p, q \in Ops :
        /\ op[p].kind = "connect" /\ pc[p] = "connecting"
        /\ op[q].kind = "leave" /\ pc[q] = "waiting"
        /\ session.conn = "connecting"

\* C19: the owner of a PySource lock neither owns the session guard nor
\* queues for it, and while some future is unfinished some future can take
\* a step.
C19_NoLockNesting ==
    /\ \A d \in Sources : srcGuard[d] # NoOp =>
          /\ guard # srcGuard[d]
          /\ ~InQueue(srcGuard[d])
          /\ pc[srcGuard[d]] = "activating"
    /\ (\E p \in Ops : pc[p] \notin {"idle", "done"}) =>
          ENABLED (\E p \in Ops : Step(p))

\* Two play calls on one PySource, the second waiting for its lock.
C19_Witness ==
    \E p, q \in Ops :
        /\ pc[p] = "activating" /\ pc[q] = "srcwait"
        /\ op[p].src = op[q].src

\* The futures whose Driver call empties the set of active sources.
Clears(p) == op[p].kind \in {"stop", "play_only_source"}

\* The inputs handed to the Driver and not stopped by a later call.
Playing ==
    {input[p] : p \in {q \in Ops :
        /\ op[q].kind \in PlayKinds
        /\ nCalls[q] = 1 /\ pc[q] \in {"called", "done"}
        /\ ~\E r \in Ops :
              Clears(r) /\ nCalls[r] = 1 /\ GrantIndex(r) > GrantIndex(q)}}

\* C20: when no play_only_source is mid-call, the active sources are the
\* inputs handed off after the last stop()/play_only_source to be granted the
\* guard, whenever their play calls were issued: a stop() granted before a
\* pending play_source's hand-off does not cancel it.
C20_EffectAtHandOff ==
    (\A p \in Ops : pc[p] # "stopping") => session.sources = Playing

\* play_source() issued first, play_only_source() second and granted the
\* guard first: both sources are active once both are done.
C20_Witness ==
    \E p, q \in Ops :
        /\ p < q
        /\ op[p].kind = "play_source" /\ op[q].kind = "play_only_source"
        /\ pc[p] = "done" /\ pc[q] = "done"
        /\ acqOrder = <<q, p>>
        /\ session.sources = {input[p], input[q]}
        /\ Cardinality(session.sources) = 2

Requested(p) == IF op[p].opt = <<>> THEN DefaultConfig ELSE op[p].opt[1]

\* C16: Driver() always resolves to the usage error and constructs nothing;
\* a Driver exists only once a create() future is done, and until the first
\* call on it it is disconnected, unmuted, silent and carries the config
\* passed to create(), or the default config when none was passed.
C16_FactoryOnly ==
    /\ \A p \in Ops : op[p].kind = "new" =>
          /\ pc[p] = "done"
          /\ result[p].tag = "UsageError"
          /\ nCalls[p] = 0
    /\ session # NoDriver =>
          \E p \in Ops :
              /\ op[p].kind = "create" /\ pc[p] = "done"
              /\ result[p] = PyDriverHandle
              /\ (\A q \in Ops : nCalls[q] = 0) =>
                    /\ session = NewDriver(Requested(p))
                    /\ session.conn = "disconnected"
    /\ session = NoDriver =>
          \A p \in Ops : result[p].tag # "Driver" /\ pc[p] \in {"idle", "creating", "done"}

\* Driver() failed, then create(config) gave a handle carrying the config.
C16_Witness ==
    \E p, q \in Ops :
        /\ op[p].kind = "new" /\ result[p].tag = "UsageError"
        /\ op[q].kind = "create" /\ op[q].opt = <<"cfgA">>
        /\ result[q] = PyDriverHandle
        /\ session = NewDriver("cfgA")

BitrateKinds == {"set_bitrate", "set_bitrate_to_max", "set_bitrate_to_auto"}

\* The bitrate futures whose Driver::set_bitrate call has been made, in the
\* order they were granted the guard.
BitrateWriters ==
    SelectSeq(acqOrder, LAMBDA p : op[p].kind \in BitrateKinds /\ nCalls[p] = 1)

\* C17: once bitrate calls have run, the session's bitrate is the whole
\* value of the last one: the tag "BitsPerSecond" with exactly the i32 passed
\* after set_bitrate(n), for every n, the bare tag "Max" or "Auto" after the
\* other two; the three never coincide.
C17_BitrateTagged ==
    BitrateWriters # <<>> =>
        LET o == op[BitrateWriters[Len(BitrateWriters)]] IN
        /\ o.kind = "set_bitrate" =>
              /\ session.bitrate = <<"BitsPerSecond", o.bits>>
              /\ session.bitrate # BitrateMax
              /\ session.bitrate # BitrateAuto
        /\ o.kind = "set_bitrate_to_max" =>
              session.bitrate = <<"Max">> /\ session.bitrate # BitrateAuto
        /\ o.kind = "set_bitrate_to_auto" =>
              session.bitrate = <<"Auto">> /\ session.bitrate # BitrateMax

\* set_bitrate(i32::MIN) ran after set_bitrate_to_auto().
C17_Witness ==
    \E p, q \in Ops :
        /\ op[p].kind = "set_bitrate_to_auto" /\ pc[p] = "done"
        /\ op[q].kind = "set_bitrate" /\ op[q].bits = -2147483647 - 1
        /\ pc[q] = "done"
        /\ acqOrder = <<p, q>>
        /\ session.bitrate = <<"BitsPerSecond", -2147483647 - 1>>

====
